---- MODULE Spec2Model ----
(***************************************************************************)
(* A model of github.com/smarter-day/logger: the Logrus/Sentry facade of   *)
(* logger_impl.go (Log, Logger.SetLevel, the six emit methods, WithValues, *)
(* WithError, convertToFields, captureErrors, getCallerInfo, isIdNull,     *)
(* getSentryContext) and the earlier OpenTelemetry variant of the same     *)
(* file where it differs (convertToFields, getCallerInfo).                 *)
(*                                                                         *)
(* Go values are records [t, v]: t is the dynamic type ("str", "int",      *)
(* "err", "nil"), v the payload.  logrus.Fields is a function from Go     *)
(* strings to values.                                                      *)
(***************************************************************************)
EXTENDS Integers, Sequences, FiniteSets, TLC

VARIABLES
    \* ---- Field Merger (SpecMerge)
    keysAndValues,  \* the variadic argument handed to convertToFields
    merged,         \* result of (*Logger).convertToFields, logger_impl.go
    merged0,        \* result of convertToFields, earlier variant
    mpc,            \* "off" | "call" | "done"
    \* ---- Caller Resolver (SpecCaller)
    appStack,       \* the application's frames, innermost first
    callerOut,      \* value stored under "caller" by logger_impl.go
    callerOut0,     \* the same, earlier variant
    cmethod,        \* the emit method the application calls
    cpc,            \* "off" | "call" | "done"
    \* ---- Context Enricher (SpecEntry)
    ectx,           \* the context handed to Log
    eout,           \* the Logger returned by Log
    epc,            \* "off" | "call" | "done"
    \* ---- Chaining under concurrency (SpecChain)
    chain,          \* heap of Logger objects, by address
    tpc,            \* per thread: "idle" | "copied"
    tlocal,         \* per thread: the frame of the running WithFields
    born,           \* per address: how the Logger was made (history)
    \* ---- Logger handles, writer and hub (Spec)
    level,          \* baseLogger's level
    handles,        \* heap of Logger objects, by address
    events,         \* what the last call did, in program order
    lastOp,         \* the last call: method, receiver, arguments
    ret,            \* address returned by the last call (0: none)
    proc,           \* "running" | "exited" | "panicking"
    lastSet         \* the latest SetLevel call: receiver and level (h = 0: none yet)

mergeVars  == <<keysAndValues, merged, merged0, mpc>>
callerVars == <<appStack, callerOut, callerOut0, cmethod, cpc>>
entryVars  == <<ectx, eout, epc>>
chainVars  == <<chain, tpc, tlocal, born>>
mainVars   == <<level, handles, events, lastOp, ret, proc, lastSet>>
vars == <<mergeVars, callerVars, entryVars, chainVars, mainVars>>

(***************************************************************************)
(* Bounds                                                                  *)
(***************************************************************************)
MaxPairsLen == 4    \* longest variadic argument list tried on the merger
MaxAppDepth == 3    \* deepest application stack tried on the resolver
IdBytes     == 1    \* bytes of a span id (a trace id has twice as many)
MaxChain    == 4    \* Logger objects on the SpecChain heap
MaxHandles  == 2    \* Logger objects on the Spec heap

(***************************************************************************)
(* Go values and logrus.Fields                                             *)
(***************************************************************************)
StrVal(s) == [t |-> "str", v |-> s]
IntVal(s) == [t |-> "int", v |-> s]
ErrVal(s) == [t |-> "err", v |-> s]
NilValue == [t |-> "nil", v |-> ""]

\* keysAndValues[i].(string)
IsString(x) == x.t = "str"
\* value.(error)
IsError(x) == x.t = "err"

ErrorKey          == "error"
SpanIdLogKeyName  == "spanID"
TraceIdLogKeyName == "traceID"

\* logrus.Fields{}
EmptyFields == [k \in {} |-> NilValue]
\* fields[key] = value
Put(fields, key, value) ==
    [k \in DOMAIN fields \cup {key} |-> IF k = key THEN value ELSE fields[k]]

\* fmt.Sprintf("invalid_key_%d", i)
InvalidKey(i) == "invalid_key_" \o ToString(i)

MissingValue == StrVal("MISSING_VALUE")

(***************************************************************************)
(* convertToFields.  Positions are Go's, 0-based: keysAndValues[i] in Go   *)
(* is kv[i + 1] here.                                                      *)
(***************************************************************************)
KeyAt(kv, i) == IF IsString(kv[i + 1]) THEN kv[i + 1].v ELSE InvalidKey(i)

\* for i := 0; i < length-1; i += 2 { ... fields[key] = keysAndValues[i+1] }
RECURSIVE PairLoop(_, _, _)
PairLoop(kv, i, fields) ==
    IF i < Len(kv) - 1
    THEN PairLoop(kv, i + 2, Put(fields, KeyAt(kv, i), kv[i + 2]))
    ELSE fields

\* if length%2 != 0 { ... fields[key] = "MISSING_VALUE" }
OddTail(kv, fields) ==
    IF Len(kv) % 2 # 0
    THEN Put(fields, KeyAt(kv, Len(kv) - 1), MissingValue)
    ELSE fields

\* a merger whose loop stops one pair early
RECURSIVE ShortLoop(_, _, _)
ShortLoop(kv, i, fields) ==
    IF i < Len(kv) - 2
    THEN ShortLoop(kv, i + 2, Put(fields, KeyAt(kv, i), kv[i + 2]))
    ELSE fields
convertToFields_short(kv) ==
    IF Len(kv) = 0 THEN EmptyFields ELSE OddTail(kv, ShortLoop(kv, 0, EmptyFields))

\* a merger that numbers a synthetic key by its pair, not by its position
KeyAtPair(kv, i) == IF IsString(kv[i + 1]) THEN kv[i + 1].v ELSE InvalidKey(i \div 2)
RECURSIVE PairLoopByPair(_, _, _)
PairLoopByPair(kv, i, fields) ==
    IF i < Len(kv) - 1
    THEN PairLoopByPair(kv, i + 2, Put(fields, KeyAtPair(kv, i), kv[i + 2]))
    ELSE fields
convertToFields_bypair(kv) ==
    IF Len(kv) = 0 THEN EmptyFields
    ELSE LET f == PairLoopByPair(kv, 0, EmptyFields)
         IN IF Len(kv) % 2 # 0
            THEN Put(f, KeyAtPair(kv, Len(kv) - 1), MissingValue)
            ELSE f

\* (*Logger).convertToFields, logger_impl.go
convertToFields(kv) ==
    IF Len(kv) = 0 THEN EmptyFields ELSE OddTail(kv, PairLoop(kv, 0, EmptyFields))

\* convertToFields, earlier variant (no early return on empty input)
convertToFields0(kv) == OddTail(kv, PairLoop(kv, 0, EmptyFields))

(***************************************************************************)
(* getCallerInfo.  A frame is [file, line, fn]: file and fn are paths as   *)
(* sequences of elements, fn = <<>> when runtime.FuncForPC returns nil.    *)
(* A stack lists frames innermost first.                                   *)
(***************************************************************************)
skipFrames == 3

\* filepath.Base
Base(path) == IF Len(path) = 0 THEN "." ELSE path[Len(path)]

\* the path as one string, elements joined by "/"
RECURSIVE JoinPath(_)
JoinPath(path) ==
    IF Len(path) = 0 THEN ""
    ELSE IF Len(path) = 1 THEN path[1]
    ELSE path[1] \o "/" \o JoinPath(Tail(path))

\* runtime.Caller(skip), called by the function of stack[1]: skip = 0 is
\* that function itself, skip = 1 its caller, and so on
runtimeCaller(stack, skip) ==
    IF skip + 1 <= Len(stack)
    THEN [ok |-> TRUE, frame |-> stack[skip + 1]]
    ELSE [ok |-> FALSE, frame |-> [file |-> <<>>, line |-> 0, fn |-> <<>>]]

\* getCallerInfo, logger_impl.go
getCallerInfo(stack) ==
    LET c == runtimeCaller(stack, skipFrames)
    IN IF ~c.ok THEN "unknown:?"
       ELSE Base(c.frame.file) \o ":" \o ToString(c.frame.line) \o " " \o
            (IF c.frame.fn = <<>> THEN "unknown" ELSE Base(c.frame.fn))

\* getCallerInfo, earlier variant
getCallerInfo0(stack) ==
    LET c == runtimeCaller(stack, skipFrames)
    IN IF ~c.ok THEN "unknown"
       ELSE Base(c.frame.file) \o ":" \o ToString(c.frame.line) \o " " \o
            (IF c.frame.fn = <<>> THEN "unknown" ELSE JoinPath(c.frame.fn))

LibFile == <<"github.com", "smarter-day", "logger", "logger_impl.go">>
LibFn(name) == <<"github.com", "smarter-day", "logger." \o name>>

\* the line of each emit method that calls getCallerInfo
EmitLine(m) ==
    CASE m = "Debug" -> 73 [] m = "Info" -> 80 [] m = "Warn" -> 87
      [] m = "Error" -> 97 [] m = "Fatal" -> 107 [] m = "Panic" -> 117

\* the goroutine's stack while getCallerInfo runs inside emit method m
StackIn(m, app) ==
    << [file |-> LibFile, line |-> 184, fn |-> LibFn("getCallerInfo")],
       [file |-> LibFile, line |-> EmitLine(m), fn |-> LibFn("(*Logger)." \o m)] >>
    \o app \o
    << [file |-> <<"runtime", "asm_amd64.s">>, line |-> 1700,
        fn |-> <<"runtime.goexit">>] >>

(***************************************************************************)
(* Contexts, spans and Log.  A context is nil or carries, by key lookup,   *)
(* a value under sentry.HubContextKey (none, a *sentry.Hub, or another     *)
(* context.Context) and possibly a span.                                   *)
(***************************************************************************)
NoSpan == [has |-> FALSE, TraceID |-> <<>>, SpanID |-> <<>>]
MkSpan(traceID, spanID) == [has |-> TRUE, TraceID |-> traceID, SpanID |-> spanID]

NilCtx == [nil |-> TRUE, hub |-> "none", span |-> NoSpan, inner |-> NoSpan]
\* hub: what ctx.Value(sentry.HubContextKey) holds; span: the span of ctx;
\* inner: the span of the context stored under HubContextKey, if one is
MkCtx(hub, span, inner) == [nil |-> FALSE, hub |-> hub, span |-> span, inner |-> inner]

HexDigits == <<"0", "1", "2", "3", "4", "5", "6", "7",
               "8", "9", "a", "b", "c", "d", "e", "f">>

\* TraceID.String() / SpanID.String(): hex.EncodeToString, as characters
RECURSIVE HexChars(_)
HexChars(bytes) ==
    IF Len(bytes) = 0 THEN <<>>
    ELSE << HexDigits[(Head(bytes) \div 16) + 1], HexDigits[(Head(bytes) % 16) + 1] >>
         \o HexChars(Tail(bytes))

\* the Go string made of the characters
RECURSIVE GoString(_)
GoString(chars) == IF Len(chars) = 0 THEN "" ELSE Head(chars) \o GoString(Tail(chars))

\* an id check that takes one '0' anywhere for a null id
isIdNull_any(id) == Len(id) = 0 \/ \E i \in 1..Len(id) : id[i] = "0"

\* isIdNull: empty, or every character is '0'
isIdNull(id) ==
    IF Len(id) = 0 THEN TRUE
    ELSE ~ \E i \in 1..Len(id) : id[i] # "0"

\* getSentryContext: the context stored under HubContextKey if that value
\* is a context.Context, else ctx itself
getSentryContext(ctx) ==
    IF ctx.hub = "ctx" THEN MkCtx("none", ctx.inner, NoSpan) ELSE ctx

\* sentry.SpanFromContext
SpanFromContext(ctx) == ctx.span

\* Entry.WithFields: a fresh map, the entry's Data copied, then the fields
WithFields(data, fields) ==
    [k \in DOMAIN data \cup DOMAIN fields |->
        IF k \in DOMAIN fields THEN fields[k] ELSE data[k]]

\* Entry.WithField(key, value)
WithField(data, key, value) == WithFields(data, Put(EmptyFields, key, value))

MkLogger(data, ctx) == [Entry |-> [Data |-> data], Context |-> ctx]

\* the fields Log collects from the context
TraceFields(ctx) ==
    IF ctx.nil THEN EmptyFields
    ELSE LET span == SpanFromContext(getSentryContext(ctx))
         IN IF ~span.has THEN EmptyFields
            ELSE LET traceID == HexChars(span.TraceID)
                     spanID  == HexChars(span.SpanID)
                 IN IF ~isIdNull(traceID) /\ ~isIdNull(spanID)
                    THEN Put(Put(EmptyFields, TraceIdLogKeyName, StrVal(GoString(traceID))),
                             SpanIdLogKeyName, StrVal(GoString(spanID)))
                    ELSE EmptyFields

\* Log(ctx)
Log(ctx) == MkLogger(WithFields(EmptyFields, TraceFields(ctx)), ctx)

(***************************************************************************)
(* Parts that a specification does not use stay as they are here.          *)
(***************************************************************************)
MergeOff ==
    /\ keysAndValues = <<>> /\ merged = EmptyFields /\ merged0 = EmptyFields
    /\ mpc = "off"
CallerOff ==
    /\ appStack = <<>> /\ callerOut = "" /\ callerOut0 = "" /\ cmethod = ""
    /\ cpc = "off"
EntryOff ==
    /\ ectx = NilCtx /\ eout = MkLogger(EmptyFields, NilCtx) /\ epc = "off"

(***************************************************************************)
(* SpecMerge: convertToFields on every argument list up to MaxPairsLen.    *)
(***************************************************************************)
MergeValues ==
    { StrVal("a"), StrVal("b"), StrVal("invalid_key_0"), IntVal("7"), ErrVal("e1") }
MergeInputs == UNION { [1..n -> MergeValues] : n \in 0..MaxPairsLen }

Convert ==
    /\ mpc = "call"
    /\ merged' = convertToFields(keysAndValues)
    /\ merged0' = convertToFields0(keysAndValues)
    /\ mpc' = "done"
    /\ UNCHANGED <<keysAndValues, callerVars, entryVars, chainVars, mainVars>>

(***************************************************************************)
(* SpecCaller: an application function calls an emit method, which calls   *)
(* getCallerInfo.                                                          *)
(***************************************************************************)
EmitMethods == {"Debug", "Info", "Warn", "Error", "Fatal", "Panic"}

AppFrames ==
    { [file |-> <<"app", "main.go">>, line |-> 12, fn |-> <<"main.main">>],
      [file |-> <<"app", "svc", "handler.go">>, line |-> 42,
       fn |-> <<"github.com", "acme", "svc.Handle">>],
      [file |-> <<"app", "svc", "gen.go">>, line |-> 7, fn |-> <<>>] }
AppStacks == UNION { [1..n -> AppFrames] : n \in 1..MaxAppDepth }

ResolveCaller(m) ==
    /\ cpc = "call"
    /\ cmethod' = m
    /\ callerOut' = getCallerInfo(StackIn(m, appStack))
    /\ callerOut0' = getCallerInfo0(StackIn(m, appStack))
    /\ cpc' = "done"
    /\ UNCHANGED <<appStack, mergeVars, entryVars, chainVars, mainVars>>

(***************************************************************************)
(* SpecEntry: Log on every context built from the spans below.             *)
(***************************************************************************)
IdByteVals == {0, 75, 240}
SpanIDs  == [1..IdBytes -> IdByteVals]
TraceIDs == [1..(2 * IdBytes) -> IdByteVals]
Spans == {NoSpan} \cup { MkSpan(tr, sp) : tr \in TraceIDs, sp \in SpanIDs }
LiveSpan == MkSpan([i \in 1..(2 * IdBytes) |-> 75], [i \in 1..IdBytes |-> 240])
EntryContexts ==
    {NilCtx}
    \cup { MkCtx(h, sp, NoSpan) : h \in {"none", "hub"}, sp \in Spans }
    \cup { MkCtx("ctx", sp, isp) : sp \in {NoSpan, LiveSpan}, isp \in Spans }

EntryLog ==
    /\ epc = "call"
    /\ eout' = Log(ectx)
    /\ epc' = "done"
    /\ UNCHANGED <<ectx, mergeVars, callerVars, chainVars, mainVars>>

(***************************************************************************)
(* The writer (logrus) as the facade uses it.                              *)
(***************************************************************************)
PanicLevel == 0
FatalLevel == 1
ErrorLevel == 2
WarnLevel  == 3
InfoLevel  == 4
DebugLevel == 5

\* Logger.IsLevelEnabled
IsLevelEnabled(threshold, lvl) == threshold >= lvl

\* one thing a call did: e is "bridge" (captureErrors entered), "capture"
\* (hub.CaptureException(exc)), "write" (a record written), "exit"
\* (Logger.Exit(level)) or "panic" (panic(entry), the entry holding msg)
Event(e, lvl, msg, data, exc) ==
    [e |-> e, level |-> lvl, msg |-> msg, data |-> data, exc |-> exc]

\* Entry.Log(lvl, msg): the record is written only at an enabled level, and
\* a written record at PanicLevel is followed by panic(entry)
EntryLogAt(threshold, lvl, data, msg) ==
    IF IsLevelEnabled(threshold, lvl)
    THEN << Event("write", lvl, msg, data, NilValue) >>
         \o (IF lvl <= PanicLevel
             THEN << Event("panic", lvl, msg, data, NilValue) >>
             ELSE <<>>)
    ELSE <<>>

\* a Fatal that exits only when its record was written
EntryFatal_guarded(threshold, data, msg) ==
    IF IsLevelEnabled(threshold, FatalLevel)
    THEN << Event("write", FatalLevel, msg, data, NilValue),
            Event("exit", 1, msg, EmptyFields, NilValue) >>
    ELSE <<>>

\* Entry.Fatal(msg): Entry.Log(FatalLevel, msg), then Logger.Exit(1)
EntryFatal(threshold, data, msg) ==
    EntryLogAt(threshold, FatalLevel, data, msg)
    \o << Event("exit", 1, msg, EmptyFields, NilValue) >>

(***************************************************************************)
(* captureErrors.  Go ranges over a map in an unspecified order: order is  *)
(* the order in which this run meets the keys that hold an error.          *)
(***************************************************************************)
ErrorKeys(data) == { k \in DOMAIN data : IsError(data[k]) }

Orders(S) ==
    { f \in [1..Cardinality(S) -> S] :
        \A i, j \in 1..Cardinality(S) : i # j => f[i] # f[j] }

CaptureEvent(exc) == Event("capture", 0, "", EmptyFields, exc)

FieldCaptures(data, order) ==
    LET vals == [i \in 1..Len(order) |-> data[order[i]]]
        errs == SelectSeq(vals, IsError)
    IN [i \in 1..Len(errs) |-> CaptureEvent(errs[i])]

\* a bridge that reports the message and returns
captureErrors_msgOnly(l, msg, order) ==
    << Event("bridge", 0, msg, EmptyFields, NilValue) >> \o
    ( IF l.Context.nil THEN <<>>
      ELSE IF l.Context.hub # "hub" THEN <<>>
      ELSE (IF msg # "" THEN << CaptureEvent(ErrVal(msg)) >> ELSE <<>>) )

\* (*Logger).captureErrors
captureErrors(l, msg, order) ==
    << Event("bridge", 0, msg, EmptyFields, NilValue) >> \o
    ( IF l.Context.nil THEN <<>>
      ELSE IF l.Context.hub # "hub" THEN <<>>
      ELSE (IF msg # "" THEN << CaptureEvent(ErrVal(msg)) >> ELSE <<>>)
           \o FieldCaptures(l.Entry.Data, order) )

(***************************************************************************)
(* Spec: handles, the shared writer and the hub.                           *)
(***************************************************************************)
MainAppStack ==
    << [file |-> <<"app", "svc", "handler.go">>, line |-> 42,
        fn |-> <<"github.com", "acme", "svc.Handle">>],
       [file |-> <<"app", "main.go">>, line |-> 12, fn |-> <<"main.main">>] >>

MainContexts == { NilCtx, MkCtx("none", NoSpan, NoSpan), MkCtx("hub", LiveSpan, NoSpan) }
\* the calls tried: message and key/value arguments of an emit method,
\* arguments of WithValues and WithError, levels handed to SetLevel
EmitInputs ==
    { [msg |-> "boom", kv |-> <<>>],
      [msg |-> "", kv |-> <<StrVal("cause"), ErrVal("e2")>>] }
WithInputs ==
    { <<StrVal("k"), StrVal("v1")>>,
      <<StrVal("cause"), ErrVal("e2"), StrVal("root"), ErrVal("e3")>> }
ErrInputs  == { ErrVal("e1") }
SetInputs  == { PanicLevel, ErrorLevel }

Op(op, h, msg, kv, err, lvl) ==
    [op |-> op, h |-> h, msg |-> msg, kv |-> kv, err |-> err, lvl |-> lvl]

\* the Data of the entry an emit method logs through:
\* l.Entry.WithFields(l.convertToFields(kv...)).WithField("caller", getCallerInfo())
EmitData(l, m, kv) ==
    WithField(WithFields(l.Entry.Data, convertToFields(kv)), "caller",
              StrVal(getCallerInfo(StackIn(m, MainAppStack))))

MethodLevel(m) ==
    CASE m = "Debug" -> DebugLevel [] m = "Info" -> InfoLevel
      [] m = "Warn" -> WarnLevel   [] m = "Error" -> ErrorLevel
      [] m = "Fatal" -> FatalLevel [] m = "Panic" -> PanicLevel

\* what the process is doing after the events of a call
ProcAfter(evs) ==
    IF \E i \in 1..Len(evs) : evs[i].e = "exit" THEN "exited"
    ELSE IF \E i \in 1..Len(evs) : evs[i].e = "panic" THEN "panicking"
    ELSE "running"

Called(op, evs, r) ==
    /\ lastOp' = op
    /\ events' = evs
    /\ ret' = r
    /\ proc' = ProcAfter(evs)
    /\ UNCHANGED <<mergeVars, callerVars, entryVars, chainVars>>

\* Log(ctx): a new Logger on the base logger
DoLog(ctx) ==
    /\ proc = "running" /\ Len(handles) < MaxHandles
    /\ handles' = Append(handles, Log(ctx))
    /\ Called(Op("Log", 0, "", <<>>, NilValue, 0), <<>>, Len(handles) + 1)
    /\ UNCHANGED <<level, lastSet>>

\* a SetLevel that returns l and leaves the base logger alone
SetLevel_local(h, lvl) ==
    /\ proc = "running" /\ h \in DOMAIN handles
    /\ lastSet' = [h |-> h, lvl |-> lvl]
    /\ Called(Op("SetLevel", h, "", <<>>, NilValue, lvl), <<>>, h)
    /\ UNCHANGED <<level, handles>>

\* (*Logger).SetLevel
SetLevel(h, lvl) ==
    /\ proc = "running" /\ h \in DOMAIN handles
    /\ level' = lvl
    /\ lastSet' = [h |-> h, lvl |-> lvl]
    /\ Called(Op("SetLevel", h, "", <<>>, NilValue, lvl), <<>>, h)
    /\ UNCHANGED handles

\* an emit path below Error that goes through the bridge all the same
Quiet_bridged(m, h, msg, kv) ==
    /\ proc = "running" /\ h \in DOMAIN handles
    /\ \E order \in Orders(ErrorKeys(handles[h].Entry.Data)) :
          Called(Op(m, h, msg, kv, NilValue, 0),
                 captureErrors(handles[h], msg, order)
                 \o EntryLogAt(level, MethodLevel(m), EmitData(handles[h], m, kv), msg), 0)
    /\ UNCHANGED <<level, handles, lastSet>>

\* Debug, Info, Warn: no bridge call
Quiet(m, h, msg, kv) ==
    /\ proc = "running" /\ h \in DOMAIN handles
    /\ Called(Op(m, h, msg, kv, NilValue, 0),
              EntryLogAt(level, MethodLevel(m), EmitData(handles[h], m, kv), msg), 0)
    /\ UNCHANGED <<level, handles, lastSet>>

\* (*Logger).Debug
Debug(h, msg, kv) == Quiet("Debug", h, msg, kv)
\* (*Logger).Info
Info(h, msg, kv) == Quiet("Info", h, msg, kv)
\* (*Logger).Warn
Warn(h, msg, kv) == Quiet("Warn", h, msg, kv)

\* (*Logger).Error
Error(h, msg, kv) ==
    /\ proc = "running" /\ h \in DOMAIN handles
    /\ \E order \in Orders(ErrorKeys(handles[h].Entry.Data)) :
          Called(Op("Error", h, msg, kv, NilValue, 0),
                 captureErrors(handles[h], msg, order)
                 \o EntryLogAt(level, ErrorLevel, EmitData(handles[h], "Error", kv), msg), 0)
    /\ UNCHANGED <<level, handles, lastSet>>

\* (*Logger).Fatal
Fatal(h, msg, kv) ==
    /\ proc = "running" /\ h \in DOMAIN handles
    /\ \E order \in Orders(ErrorKeys(handles[h].Entry.Data)) :
          Called(Op("Fatal", h, msg, kv, NilValue, 0),
                 captureErrors(handles[h], msg, order)
                 \o EntryFatal(level, EmitData(handles[h], "Fatal", kv), msg), 0)
    /\ UNCHANGED <<level, handles, lastSet>>

\* (*Logger).Panic
Panic(h, msg, kv) ==
    /\ proc = "running" /\ h \in DOMAIN handles
    /\ \E order \in Orders(ErrorKeys(handles[h].Entry.Data)) :
          Called(Op("Panic", h, msg, kv, NilValue, 0),
                 captureErrors(handles[h], msg, order)
                 \o EntryLogAt(level, PanicLevel, EmitData(handles[h], "Panic", kv), msg), 0)
    /\ UNCHANGED <<level, handles, lastSet>>

\* (*Logger).WithValues
WithValues(h, kv) ==
    /\ proc = "running" /\ h \in DOMAIN handles /\ Len(handles) < MaxHandles
    /\ handles' = Append(handles,
          MkLogger(WithFields(handles[h].Entry.Data, convertToFields(kv)),
                   handles[h].Context))
    /\ Called(Op("WithValues", h, "", kv, NilValue, 0), <<>>, Len(handles) + 1)
    /\ UNCHANGED <<level, lastSet>>

\* the value WithError stores under ErrorKey: err itself
WithErrorValue(err) == err

\* (*Logger).WithError
WithError(h, err) ==
    /\ proc = "running" /\ h \in DOMAIN handles /\ Len(handles) < MaxHandles
    /\ handles' = Append(handles,
          MkLogger(WithField(handles[h].Entry.Data, ErrorKey, WithErrorValue(err)),
                   handles[h].Context))
    /\ Called(Op("WithError", h, "", <<>>, err, 0), <<>>, Len(handles) + 1)
    /\ UNCHANGED <<level, lastSet>>

(***************************************************************************)
(* SpecChain: WithValues and WithError called from several threads on      *)
(* shared Loggers.  Entry.WithFields reads the receiver's Data into a      *)
(* fresh map, then the new Logger is allocated: a thread may be preempted  *)
(* between the two.                                                        *)
(***************************************************************************)
Threads == {"t1", "t2"}
ChainContexts == { MkCtx("none", NoSpan, NoSpan), MkCtx("hub", LiveSpan, NoSpan) }
ChainInputs == { <<StrVal("k"), StrVal("v1")>>, <<StrVal("k"), StrVal("v2")>> }
NoFrame == [recv |-> 0, fields |-> EmptyFields, data |-> EmptyFields]

Running == { t \in Threads : tpc[t] = "copied" }
Room == Len(chain) + Cardinality(Running) < MaxChain

\* a return that also stores the new Logger into the receiver
Alloc_inplace(heap, recv, obj) == Append([heap EXCEPT ![recv] = obj], obj)
\* return &Logger{Entry: ..., Context: l.Context}
Alloc(heap, recv, obj) == Append(heap, obj)

ChainLog(ctx) ==
    /\ Room
    /\ chain' = Append(chain, Log(ctx))
    /\ born' = Append(born, [parent |-> 0, fields |-> EmptyFields, obj |-> Log(ctx)])
    /\ UNCHANGED <<tpc, tlocal, mergeVars, callerVars, entryVars, mainVars>>

Enter(t, h, fields) ==
    /\ tpc[t] = "idle" /\ h \in DOMAIN chain /\ Room
    /\ tlocal' = [tlocal EXCEPT ![t] =
                    [recv |-> h, fields |-> fields, data |-> chain[h].Entry.Data]]
    /\ tpc' = [tpc EXCEPT ![t] = "copied"]
    /\ UNCHANGED <<chain, born, mergeVars, callerVars, entryVars, mainVars>>

\* (*Logger).WithValues, up to the copy of l.Entry.Data
WithValuesCall(t, h, kv) == Enter(t, h, convertToFields(kv))
\* (*Logger).WithError, up to the copy of l.Entry.Data
WithErrorCall(t, h, err) == Enter(t, h, Put(EmptyFields, ErrorKey, WithErrorValue(err)))

\* the rest of WithValues / WithError: the new fields go over the copy and
\* the new Logger is returned
WithFieldsReturn(t) ==
    /\ tpc[t] = "copied"
    /\ LET f == tlocal[t]
           obj == MkLogger(WithFields(f.data, f.fields), chain[f.recv].Context)
       IN /\ chain' = Alloc(chain, f.recv, obj)
          /\ born' = Append(born, [parent |-> f.recv, fields |-> f.fields, obj |-> obj])
    /\ tpc' = [tpc EXCEPT ![t] = "idle"]
    /\ tlocal' = [tlocal EXCEPT ![t] = NoFrame]
    /\ UNCHANGED <<mergeVars, callerVars, entryVars, mainVars>>

ChainOff ==
    /\ chain = <<>> /\ born = <<>>
    /\ tpc = <<>> /\ tlocal = <<>>
MainOff ==
    /\ level = DebugLevel /\ handles = <<>> /\ events = <<>>
    /\ lastOp = Op("init", 0, "", <<>>, NilValue, 0)
    /\ ret = 0 /\ proc = "running" /\ lastSet = [h |-> 0, lvl |-> DebugLevel]

\* init(): a logrus logger at DebugLevel; no Logger has been made yet
Init == MergeOff /\ CallerOff /\ EntryOff /\ ChainOff /\ MainOff

Next ==
    \/ \E ctx \in MainContexts : DoLog(ctx)
    \/ \E h \in 1..MaxHandles, lvl \in SetInputs : SetLevel(h, lvl)
    \/ \E h \in 1..MaxHandles, c \in EmitInputs : Debug(h, c.msg, c.kv)
    \/ \E h \in 1..MaxHandles, c \in EmitInputs : Info(h, c.msg, c.kv)
    \/ \E h \in 1..MaxHandles, c \in EmitInputs : Warn(h, c.msg, c.kv)
    \/ \E h \in 1..MaxHandles, c \in EmitInputs : Error(h, c.msg, c.kv)
    \/ \E h \in 1..MaxHandles, c \in EmitInputs : Fatal(h, c.msg, c.kv)
    \/ \E h \in 1..MaxHandles, c \in EmitInputs : Panic(h, c.msg, c.kv)
    \/ \E h \in 1..MaxHandles, kv \in WithInputs : WithValues(h, kv)
    \/ \E h \in 1..MaxHandles, err \in ErrInputs : WithError(h, err)

Spec == Init /\ [][Next]_vars

MergeInit ==
    /\ keysAndValues \in MergeInputs /\ merged = EmptyFields /\ merged0 = EmptyFields
    /\ mpc = "call"
    /\ CallerOff /\ EntryOff /\ ChainOff /\ MainOff
SpecMerge == MergeInit /\ [][Convert]_vars

CallerInit ==
    /\ appStack \in AppStacks /\ callerOut = "" /\ callerOut0 = "" /\ cmethod = ""
    /\ cpc = "call"
    /\ MergeOff /\ EntryOff /\ ChainOff /\ MainOff
CallerNext == \E m \in EmitMethods : ResolveCaller(m)
SpecCaller == CallerInit /\ [][CallerNext]_vars

EntryInit ==
    /\ ectx \in EntryContexts /\ eout = MkLogger(EmptyFields, NilCtx) /\ epc = "call"
    /\ MergeOff /\ CallerOff /\ ChainOff /\ MainOff
SpecEntry == EntryInit /\ [][EntryLog]_vars

ChainInit ==
    /\ chain = <<>> /\ born = <<>>
    /\ tpc = [t \in Threads |-> "idle"] /\ tlocal = [t \in Threads |-> NoFrame]
    /\ MergeOff /\ CallerOff /\ EntryOff /\ MainOff
ChainNext ==
    \/ \E ctx \in ChainContexts : ChainLog(ctx)
    \/ \E t \in Threads, h \in 1..MaxChain, kv \in ChainInputs : WithValuesCall(t, h, kv)
    \/ \E t \in Threads, h \in 1..MaxChain : WithErrorCall(t, h, ErrVal("e1"))
    \/ \E t \in Threads : WithFieldsReturn(t)
SpecChain == ChainInit /\ [][ChainNext]_vars

(***************************************************************************)
(* C1.  Chaining never mutates a Logger that was returned: every Logger    *)
(* on the heap is still the object its call returned, a thread that has    *)
(* copied its receiver's Data holds what the receiver holds now, and a     *)
(* derived Logger holds its parent's fields overridden by the new ones,    *)
(* with the parent's Context.                                              *)
(***************************************************************************)
Override(old, new) ==
    [k \in DOMAIN old \cup DOMAIN new |-> IF k \in DOMAIN new THEN new[k] ELSE old[k]]

IsCapture(ev) == ev.e = "capture"
IsWrite(ev) == ev.e = "write"
Captures(evs) == SelectSeq(evs, IsCapture)
Writes(evs) == SelectSeq(evs, IsWrite)
HubReachable(l) == ~l.Context.nil /\ l.Context.hub = "hub"

(***************************************************************************)
(* C2.  Debug, Info, Warn, WithValues, WithError and SetLevel report       *)
(* nothing: such a call never enters the bridge and the hub captures no    *)
(* exception during it, whatever the message and the receiver's fields.    *)
(***************************************************************************)
\* C2: a call of the six quiet operations leaves no bridge or capture event
C2_BridgeOnlyFromErrorPaths ==
    lastOp.op \in {"Debug", "Info", "Warn", "WithValues", "WithError", "SetLevel"} =>
        /\ Captures(events) = <<>>
        /\ \A i \in 1..Len(events) : events[i].e # "bridge"

\* Debug("boom") was written through a Logger whose context reaches a hub
\* and whose fields hold an error
C2_Witness ==
    /\ lastOp.op = "Debug" /\ lastOp.msg = "boom"
    /\ HubReachable(handles[lastOp.h])
    /\ ErrorKeys(handles[lastOp.h].Entry.Data) # {}
    /\ Len(Writes(events)) = 1

C4_BridgeSeesMergedFields ==
    ( /\ lastOp.op \in {"Error", "Fatal", "Panic"}
      /\ HubReachable(handles[lastOp.h]) ) =>
        LET set == Override(handles[lastOp.h].Entry.Data, convertToFields(lastOp.kv))
        IN \A k \in DOMAIN set :
              set[k].t = "err" =>
                 \E i \in 1..Len(events) :
                    events[i].e = "capture" /\ events[i].exc = set[k]

(***************************************************************************)
(* C6.  The threshold is one value shared by all Loggers: after a          *)
(* SetLevel(L) through any Logger, an emit method of a severity below L    *)
(* (a larger logrus level) writes no record through any Logger; SetLevel   *)
(* returns its receiver and changes no Logger.                             *)
(***************************************************************************)
C6_State ==
    /\ ( /\ lastOp.op \in EmitMethods /\ lastSet.h # 0
         /\ MethodLevel(lastOp.op) > lastSet.lvl ) => Writes(events) = <<>>
    /\ ( /\ lastOp.op \in EmitMethods /\ lastSet.h # 0
         /\ MethodLevel(lastOp.op) <= lastSet.lvl ) => Len(Writes(events)) = 1
    /\ lastOp.op = "SetLevel" => ret = lastOp.h /\ lastSet.lvl = lastOp.lvl
C6_Step == lastOp'.op = "SetLevel" => handles' = handles
\* C6: the shared threshold decides every write, and SetLevel changes no
\* Logger
C6_SharedThreshold == [](C6_State) /\ [][C6_Step]_vars

\* SetLevel(ErrorLevel) through one Logger, then Info through another one
\* made afterwards: nothing is written
C6_Witness ==
    /\ lastOp.op = "Info" /\ lastSet.h # 0 /\ lastSet.h < lastOp.h
    /\ lastSet.lvl = ErrorLevel
    /\ events = <<>>

(***************************************************************************)
(* C9.  Fatal and Panic always end the call by leaving: Fatal by           *)
(* Logger.Exit(1), Panic by panic(entry) with the message, under every     *)
(* threshold and context.  The bridge call comes first, the record is      *)
(* written before the exit or the panic, and nothing follows it.           *)
(***************************************************************************)
Rank(ev) ==
    CASE ev.e = "bridge" -> 0 [] ev.e = "capture" -> 1 [] ev.e = "write" -> 2
      [] ev.e = "exit" -> 3 [] ev.e = "panic" -> 3
InOrder(evs) ==
    /\ Len(evs) >= 2
    /\ evs[1].e = "bridge"
    /\ \A i, j \in 1..Len(evs) : i < j => Rank(evs[i]) <= Rank(evs[j])
    /\ \A i \in 1..Len(evs) : Rank(evs[i]) = 3 <=> i = Len(evs)
Leaves(evs) ==
    /\ lastOp.op = "Fatal" =>
          /\ evs[Len(evs)].e = "exit" /\ evs[Len(evs)].level = 1
          /\ proc = "exited"
    /\ lastOp.op = "Panic" =>
          /\ evs[Len(evs)].e = "panic" /\ evs[Len(evs)].msg = lastOp.msg
          /\ proc = "panicking"

\* C9 as claimed: a record is written before every exit and every panic
C9_RecordBeforeEveryExit ==
    lastOp.op \in {"Fatal", "Panic"} =>
        /\ InOrder(events) /\ Leaves(events)
        /\ Len(Writes(events)) = 1

\* C9 as the code has it: Fatal writes no record when the threshold is
\* PanicLevel, and exits all the same
C9_ExitAfterLogging ==
    lastOp.op \in {"Fatal", "Panic"} =>
        /\ InOrder(events) /\ Leaves(events)
        /\ Len(Writes(events)) =
              IF lastOp.op = "Fatal" /\ level = PanicLevel THEN 0 ELSE 1
        /\ \A i \in 1..Len(events) :
              events[i].e = "write" =>
                 events[i].msg = lastOp.msg /\ events[i].level = MethodLevel(lastOp.op)

\* Fatal("boom") with a hub reachable at threshold ErrorLevel: bridge,
\* capture, record, exit
C9_Witness ==
    /\ lastOp.op = "Fatal" /\ lastOp.msg = "boom" /\ level = ErrorLevel
    /\ HubReachable(handles[lastOp.h])
    /\ Len(events) >= 4
    /\ events[Len(events) - 1].e = "write"
    /\ proc = "exited"

(***************************************************************************)
(* C5.  Log attaches traceID and spanID together or not at all: not for a  *)
(* nil context, not without a span, not when either id is all '0'; else    *)
(* both, equal to the span's ids in hex.                                   *)
(***************************************************************************)
\* the span the context leads to: its own, or that of the context it
\* carries under the hub key
Reached(ctx) == IF ctx.hub = "ctx" THEN ctx.inner ELSE ctx.span
AllZero(bytes) == \A i \in 1..Len(bytes) : bytes[i] = 0

\* C5: the fields of Log(ctx) are both ids of the reached span, or none
C5_TraceFieldsBothOrNeither ==
    epc = "done" =>
        LET data == eout.Entry.Data
            span == Reached(ectx)
            absent == ectx.nil \/ ~span.has \/ AllZero(span.TraceID) \/ AllZero(span.SpanID)
        IN /\ eout.Context = ectx
           /\ absent => data = EmptyFields
           /\ ~absent =>
                 /\ DOMAIN data = {"traceID", "spanID"}
                 /\ data["traceID"] = StrVal(GoString(HexChars(span.TraceID)))
                 /\ data["spanID"] = StrVal(GoString(HexChars(span.SpanID)))
                 /\ \E i \in 1..Len(span.TraceID) : span.TraceID[i] # 0
                 /\ \E i \in 1..Len(span.SpanID) : span.SpanID[i] # 0

\* a span whose ids hold '0' characters without being null: both attached
C5_Witness ==
    /\ epc = "done" /\ ~ectx.nil /\ Reached(ectx).has
    /\ Reached(ectx).TraceID[1] = 0
    /\ \A i \in 2..Len(Reached(ectx).TraceID) : Reached(ectx).TraceID[i] = 75
    /\ \A i \in 1..Len(Reached(ectx).SpanID) : Reached(ectx).SpanID[i] = 240
    /\ DOMAIN eout.Entry.Data = {"traceID", "spanID"}
    /\ eout.Entry.Data["spanID"].v \in {"f0", "f0f0"}
    /\ eout.Entry.Data["traceID"].v \in {"004b", "004b4b4b"}

(***************************************************************************)
(* C7.  String keys, even length 2n.                                       *)
(***************************************************************************)
PairCount(kv) == Len(kv) \div 2
AllStringKeys(kv) ==
    /\ Len(kv) % 2 = 0
    /\ \A p \in 1..PairCount(kv) : kv[2 * p - 1].t = "str"
Holds(fields, key, value) == key \in DOMAIN fields /\ fields[key] = value

\* C7 as claimed: exactly n entries, each pair's value under its key
C7_ExactlyHalf ==
    (mpc = "done" /\ AllStringKeys(keysAndValues)) =>
        /\ Cardinality(DOMAIN merged) = PairCount(keysAndValues)
        /\ \A p \in 1..PairCount(keysAndValues) :
              Holds(merged, keysAndValues[2 * p - 1].v, keysAndValues[2 * p])

\* C7 as the code has it: one entry per distinct key, so exactly n when the n
\* keys differ; a key holds the unchanged value of its last pair
C7_OnePerDistinctKey ==
    (mpc = "done" /\ AllStringKeys(keysAndValues)) =>
        LET kv == keysAndValues
            n == PairCount(kv)
            keys == { kv[2 * p - 1].v : p \in 1..n }
            last(p) == \A q \in (p + 1)..n : kv[2 * q - 1].v # kv[2 * p - 1].v
        IN \A f \in {merged, merged0} :
              /\ DOMAIN f = keys
              /\ Cardinality(keys) = n => Cardinality(DOMAIN f) = n
              /\ \A p \in 1..n : last(p) => Holds(f, kv[2 * p - 1].v, kv[2 * p])

\* two pairs with different keys, one value an error, one not a string
C7_Witness ==
    /\ mpc = "done"
    /\ keysAndValues = <<StrVal("a"), ErrVal("e1"), StrVal("b"), IntVal("7")>>
    /\ Cardinality(DOMAIN merged) = 2
    /\ merged["a"] = ErrVal("e1") /\ merged["b"] = IntVal("7")

(***************************************************************************)
(* C8.  Malformed input.  Positions are 0-based as in the code.            *)
(***************************************************************************)
EvenPositions(kv) == { i \in 0..(Len(kv) - 1) : i % 2 = 0 }
\* what position i pairs its key with
Paired(kv, i) == IF i + 1 < Len(kv) THEN kv[i + 2] ELSE MissingValue

\* C8 as claimed: the value paired with a non-string key at i is always
\* found under "invalid_key_<i>"
C8_NothingDropped ==
    mpc = "done" =>
        /\ keysAndValues = <<>> => merged = EmptyFields
        /\ \A i \in EvenPositions(keysAndValues) :
              keysAndValues[i + 1].t # "str" =>
                 Holds(merged, InvalidKey(i), Paired(keysAndValues, i))

\* C8 as the code has it: the same, unless a later key is the very string
\* "invalid_key_<i>", whose pair then takes the entry
C8_SyntheticKeys ==
    mpc = "done" =>
        LET kv == keysAndValues
            taken(i) == \E j \in EvenPositions(kv) :
                           j > i /\ kv[j + 1] = StrVal(InvalidKey(i))
        IN \A f \in {merged, merged0} :
              /\ kv = <<>> => f = EmptyFields
              /\ \A i \in EvenPositions(kv) :
                    kv[i + 1].t # "str" =>
                       /\ InvalidKey(i) \in DOMAIN f
                       /\ ~taken(i) => f[InvalidKey(i)] = Paired(kv, i)
                       /\ taken(i) =>
                             \E j \in EvenPositions(kv) :
                                /\ j > i /\ kv[j + 1] = StrVal(InvalidKey(i))
                                /\ f[InvalidKey(i)] = Paired(kv, j)

\* a non-string key at position 0 and a trailing non-string key at 2
C8_Witness ==
    /\ mpc = "done"
    /\ keysAndValues = <<IntVal("7"), StrVal("a"), IntVal("7")>>
    /\ DOMAIN merged = {"invalid_key_0", "invalid_key_2"}
    /\ merged["invalid_key_0"] = StrVal("a")
    /\ merged["invalid_key_2"] = StrVal("MISSING_VALUE")

(***************************************************************************)
(* C10.  The value under "caller" names the application frame that called *)
(* the emit method: its file's base name, its line, its function.          *)
(***************************************************************************)
FrameText(f) ==
    Base(f.file) \o ":" \o ToString(f.line) \o " " \o
    (IF f.fn = <<>> THEN "unknown" ELSE Base(f.fn))

\* C10: after any emit method, "caller" is the text of the calling frame
C10_CallerIsCallSite ==
    cpc = "done" => callerOut = FrameText(appStack[1])

====
